---- MODULE Spec2Model ----
(***************************************************************************)
(* The request-processing state machine of app/main.py: the intake handler *)
(* receive_request, the background pipeline process_request and the ledger *)
(* file PROCESSED_PATH that both go through (load_processed /              *)
(* save_processed).  The collaborators that live outside main.py           *)
(* (code generation, the repository API, the notifier, the file system)    *)
(* are an environment: each call returns or raises, chosen with \E.        *)
(*                                                                         *)
(* Python values: a string built by an f-string is the tuple of its        *)
(* pieces, None is the empty tuple, a dict is a function.                  *)
(***************************************************************************)
EXTENDS Integers, Sequences, FiniteSets, TLC

VARIABLES
    file,       \* the file at PROCESSED_PATH: [exists, valid, obj]
    tasks,      \* the background tasks added by receive_request, in order
    last,       \* what the most recent receive_request call did
    intakes     \* number of receive_request calls so far

vars == <<file, tasks, last, intakes>>

-----------------------------------------------------------------------------
(* Bounds of the model *)

MaxIntakes == 2     \* receive_request calls in one behaviour
MaxFiles == 2       \* files in a generation result
MaxAtts == 2        \* attachments in a generation result

-----------------------------------------------------------------------------
(* Values *)

None == <<>>

USER_SECRET == <<"secret">>

USERNAME == <<"user">>

Emails == {<<"a@x">>}

TaskIds == {<<"t1">>}

Nonces == {<<"n1">>}

Rounds == {1, 2, 3}

Secrets == {USER_SECRET, <<"wrong">>}

EvaluationUrl == <<"https://eval/notify">>

\* The request bodies the model submits.
Requests ==
    [secret : Secrets, email : Emails, task : TaskIds, round : Rounds,
     nonce : Nonces, evaluation_url : {EvaluationUrl}]

\* str(n) of a small non-negative integer, as an f-string renders it.
Digits == <<"0", "1", "2", "3", "4", "5", "6", "7", "8", "9">>

Str(n) ==
    IF n < 10 THEN <<Digits[n + 1]>>
    ELSE <<Digits[(n \div 10) + 1], Digits[(n % 10) + 1]>>

\* f"{email}::{task}::round{round}::nonce{nonce}"
Key(email, task, round, nonce) ==
    email \o <<"::">> \o task \o <<"::round">> \o Str(round) \o <<"::nonce">> \o nonce

\* data.get(field, default)
Get(data, field, default) ==
    IF field \in DOMAIN data THEN data[field] ELSE default

-----------------------------------------------------------------------------
(* The ledger file: json.dump / json.load *)

PayloadFields ==
    {"email", "task", "round", "nonce", "repo_url", "commit_sha", "pages_url"}

\* One payload field as a JSON value: an int is a number, None is null, a str
\* is a string.
JsonOf(f, v) ==
    IF f = "round" THEN [t |-> "number", v |-> <<v>>]
    ELSE IF v = None THEN [t |-> "null", v |-> <<"null">>]
    ELSE [t |-> "string", v |-> v]

\* The Python value json.load gives back for a JSON value.
PyOf(j) ==
    IF j.t = "number" THEN j.v[1]
    ELSE IF j.t = "null" THEN None
    ELSE j.v

\* json.dump(data, ...): the text written for the dict `data`.
JsonDump(data) ==
    [k \in DOMAIN data |-> [f \in PayloadFields |-> JsonOf(f, data[k][f])]]

\* json.load(...) of a text that json.dump wrote.
JsonLoad(obj) ==
    [k \in DOMAIN obj |-> [f \in PayloadFields |-> PyOf(obj[k][f])]]

EmptyDict == [k \in {} |-> None]

\* The file right after open(PROCESSED_PATH, "w"): it exists and is empty, which
\* json.load rejects with JSONDecodeError.
Truncated == [exists |-> TRUE, valid |-> FALSE, obj |-> EmptyDict]

Absent == [exists |-> FALSE, valid |-> FALSE, obj |-> EmptyDict]

\* load_processed(): {} when the file is missing or does not decode.
load_processed(f) ==
    IF f.exists
    THEN IF f.valid THEN JsonLoad(f.obj) ELSE EmptyDict
    ELSE EmptyDict

\* The file after save_processed(data) has written and closed it.
save_processed(data) ==
    [exists |-> TRUE, valid |-> TRUE, obj |-> JsonDump(data)]

-----------------------------------------------------------------------------
(* receive_request *)

Response(error, status, note) == [error |-> error, status |-> status, note |-> note]

RespInvalid == Response(<<"Invalid secret">>, None, None)

RespDuplicate == Response(None, <<"ok">>, <<"duplicate handled & re-notified">>)

RespAccepted(round) ==
    Response(None, <<"accepted">>, <<"processing round ">> \o Str(round) \o <<" started">>)

\* The check of line 154 as a check that a secret is given.
SecretOk_Present(data) == Get(data, "secret", None) # None

\* data.get("secret") != USER_SECRET is false
SecretOk(data) == Get(data, "secret", None) = USER_SECRET

NoPayload ==
    [email |-> None, task |-> None, round |-> 0, nonce |-> None,
     repo_url |-> None, commit_sha |-> None, pages_url |-> None]

\* The key of line 159 without the round.
IntakeKey_NoRound(data) == Key(data.email, data.task, 1, data.nonce)

\* Line 159: the key receive_request looks up.
IntakeKey(data) == Key(data.email, data.task, data.round, data.nonce)

\* A task added after the handler itself has called create_repo.
NewTask_RepoInline(data) ==
    [data |-> data, pc |-> "scheduled", round_num |-> 0, prev_readme |-> None,
     gen |-> [files |-> <<>>, attachments |-> <<>>], i |-> 0,
     calls |-> <<[op |-> "create_repo", path |-> data.task, content |-> <<>>, ok |-> TRUE]>>,
     raised |-> {}, aborted |-> "",
     pages_url |-> None, commit_sha |-> None,
     payload |-> NoPayload, processed |-> EmptyDict]

\* A background task as background_tasks.add_task(process_request, data)
\* leaves it: nothing of process_request has run yet.  pc is the position in
\* process_request, the other fields are its locals; calls is the list of the
\* calls it has made to its collaborators, raised the calls of it that raised.
NewTask(data) ==
    [data |-> data, pc |-> "scheduled", round_num |-> 0, prev_readme |-> None,
     gen |-> [files |-> <<>>, attachments |-> <<>>], i |-> 0,
     calls |-> <<>>, raised |-> {}, aborted |-> "",
     pages_url |-> None, commit_sha |-> None,
     payload |-> NoPayload, processed |-> EmptyDict]

NoData ==
    [secret |-> None, email |-> None, task |-> None, round |-> 0,
     nonce |-> None, evaluation_url |-> None]

\* The record of a handler call: its request, its response, the number of
\* load_processed calls, the payloads it passed to notify_evaluation_server,
\* whether that call raised, and the number of tasks it added.
NoCall ==
    [data |-> NoData, response |-> Response(None, None, None), loads |-> 0,
     notified |-> <<>>, notify_raised |-> FALSE, scheduled |-> 0]

\* One call of the handler.  It is an async def with no await after the body
\* is read, so it runs to its return without another handler in between; the
\* one thing it reads that a background thread writes is the ledger file, read
\* once by load_processed.
receive_request(data) ==
    /\ intakes < MaxIntakes
    /\ intakes' = intakes + 1
    /\ IF ~SecretOk(data)
       THEN /\ last' = [NoCall EXCEPT !.data = data, !.response = RespInvalid]
            /\ UNCHANGED <<file, tasks>>
       ELSE LET processed == load_processed(file)
                key == IntakeKey(data)
            IN  IF key \in DOMAIN processed
                THEN \E raises \in BOOLEAN :
                        /\ last' = [NoCall EXCEPT !.data = data,
                                                  !.response = RespDuplicate,
                                                  !.loads = 1,
                                                  !.notified = <<processed[key]>>,
                                                  !.notify_raised = raises]
                        /\ UNCHANGED <<file, tasks>>
                ELSE /\ tasks' = Append(tasks, NewTask(data))
                     /\ last' = [NoCall EXCEPT !.data = data,
                                               !.response = RespAccepted(data.round),
                                               !.loads = 1,
                                               !.scheduled = 1]
                     /\ UNCHANGED file

-----------------------------------------------------------------------------
(* What the collaborators of process_request can return *)

\* The n-th key of the files dict of a generation result.
FileName(n) == IF n = 1 THEN <<"index.html">> ELSE <<"page">> \o Str(n) \o <<".html">>

GenFiles(n) == [j \in 1..n |-> [name |-> FileName(j), content |-> <<"generated">> \o Str(j)]]

\* Materialized attachment descriptors: a binary one, one that is text by its
\* extension and one that is text by its mime type.
Attachments ==
    { [name |-> <<"logo", ".png">>, path |-> <<"/tmp/logo.png">>, mime |-> <<"image", "/png">>],
      [name |-> <<"data", ".csv">>, path |-> <<"/tmp/data.csv">>, mime |-> <<"application", "/octet-stream">>],
      [name |-> <<"notes", ".bin">>, path |-> <<"/tmp/notes.bin">>, mime |-> <<"text", "/plain">>] }

SeqsUpTo(S, n) == UNION {[1..m -> S] : m \in 0..n}

\* The results generate_app_code can return.
GenResults == [files : {GenFiles(n) : n \in 0..MaxFiles}, attachments : SeqsUpTo(Attachments, MaxAtts)]

\* The exceptions generate_app_code can raise.
GenErrors == {"OpenAIError", "TimeoutError"}

\* The calls of process_request that can fail (enable_pages can also return
\* False).
Faults ==
    {"decode_attachments", "create_repo", "get_contents", "generate_app_code", "open",
     "create_or_update_binary_file", "create_or_update_file", "enable_pages",
     "enable_pages_false", "get_commits", "notify_evaluation_server", "load_processed"}

\* An environment of process_request: the results generation can return and
\* the calls that can fail.  FullEnv is every outcome; one task is followed
\* through it.  Concurrent tasks are followed through SystemEnv, where
\* generation returns one file and one binary attachment and the failures are
\* those that change what reaches the ledger or whether the ledger is reached.
FullEnv == [gen |-> GenResults, faults |-> Faults]

SystemEnv ==
    [gen |-> {[files |-> GenFiles(1),
               attachments |-> <<CHOOSE a \in Attachments : a.mime[1] = "image">>]},
     faults |-> {"create_repo", "generate_app_code", "enable_pages",
                 "notify_evaluation_server", "load_processed"}]

\* The outcomes of a step: ok, or one of the failures `of` that env has.
Outcomes(env, of) == {"ok"} \cup (of \cap env.faults)

\* The sha of the latest commit, as repo.get_commits()[0].sha gives it.
Shas == {<<"sha1">>}

-----------------------------------------------------------------------------
(* process_request *)

\* The names bound at module level by the import statements.
Imported ==
    {"FastAPI", "Request", "BackgroundTasks", "os", "json", "base64", "load_dotenv",
     "generate_app_code", "decode_attachments", "create_repo", "create_or_update_file",
     "enable_pages", "generate_mit_license", "create_or_update_binary_file",
     "notify_evaluation_server", "OpenAI"}

\* The fallback of the except clause of step 2.
Fallback ==
    [files |-> <<[name |-> <<"index.html">>,
                  content |-> <<"<html><body><h1>Fallback</h1></body></html>">>]>>,
     attachments |-> <<>>]

\* The test of line 83 without its test of the name.
IsText_MimeOnly(att) == att.mime[1] = "text"

\* att["mime"].startswith("text") or att["name"].endswith((".md", ".csv", ".json", ".txt"))
IsText(att) ==
    \/ att.mime[1] = "text"
    \/ att.name[Len(att.name)] \in {".md", ".csv", ".json", ".txt"}

\* repo.html_url
RepoUrl(task_id) == <<"https://github.com/">> \o USERNAME \o <<"/">> \o task_id

\* f"https://{USERNAME}.github.io/{task_id}/"
PagesUrl(task_id) == <<"https://">> \o USERNAME \o <<".github.io/">> \o task_id \o <<"/">>

\* One call to a collaborator: ok is FALSE when the call raised.
Call(op, path, content, ok) == [op |-> op, path |-> path, content |-> content, ok |-> ok]

\* The call `at` raised and process_request skips to its ledger steps.
Abort_ToLedger(t, at) == [t EXCEPT !.pc = "load", !.aborted = at, !.raised = @ \cup {at}]

\* The call `at` raised and nothing catches the exception: process_request
\* ends there.
Abort(t, at) == [t EXCEPT !.pc = "aborted", !.aborted = at, !.raised = @ \cup {at}]

\* The try of lines 80-91 missing: an exception in the attachment loop ends
\* process_request, the other try blocks are as they are.
Caught_AbortAttachments(t, at, ok) ==
    IF ok THEN t
    ELSE IF at = "attachment" THEN Abort(t, at) ELSE [t EXCEPT !.raised = @ \cup {at}]

\* The call `at` raised with no try around it.
Caught_NoTry(t, at, ok) == IF ok THEN t ELSE Abort(t, at)

\* The call `at` raised (ok is FALSE) inside a try whose except clause catches
\* Exception and prints: t goes on.
Caught(t, at, ok) == IF ok THEN t ELSE [t EXCEPT !.raised = @ \cup {at}]

\* The position after step 2 when the else branch of step 3 is taken for round
\* 2 alone and every other round takes the branch of round 1.
AfterGenerate_RoundTwoOnly(round_num, gen) ==
    IF round_num # 2
    THEN IF gen.attachments # <<>> THEN "attachments"
         ELSE IF gen.files # <<>> THEN "files" ELSE "license"
    ELSE IF gen.files # <<>> THEN "update" ELSE "license"

\* The position after step 2 when the loops over files are skipped.
AfterGenerate_SkipFiles(round_num, gen) ==
    IF round_num = 1 /\ gen.attachments # <<>> THEN "attachments" ELSE "license"

\* The position after step 2: the loop of step 3 over saved_info (round 1) or
\* over files (any other round), the loop of step 4 over files, then LICENSE.
AfterGenerate(round_num, gen) ==
    IF round_num = 1
    THEN IF gen.attachments # <<>> THEN "attachments"
         ELSE IF gen.files # <<>> THEN "files" ELSE "license"
    ELSE IF gen.files # <<>> THEN "update" ELSE "license"

\* Lines 37-46: the locals, decode_attachments and create_repo.
Start(p, env) ==
    /\ tasks[p].pc = "scheduled"
    /\ \E out \in Outcomes(env, {"decode_attachments", "create_repo"}) :
        LET t == [tasks[p] EXCEPT !.round_num = Get(tasks[p].data, "round", 1)]
            decoded == Call("decode_attachments", <<>>, <<>>, out # "decode_attachments")
            created == Call("create_repo", t.data.task, <<>>, out # "create_repo")
        IN  tasks' = [tasks EXCEPT ![p] =
                CASE out = "decode_attachments" ->
                        Abort([t EXCEPT !.calls = @ \o <<decoded>>], out)
                  [] out = "create_repo" ->
                        Abort([t EXCEPT !.calls = @ \o <<decoded, created>>], out)
                  [] OTHER ->
                        [t EXCEPT !.calls = @ \o <<decoded, created>>,
                                  !.pc = IF t.round_num = 2 THEN "readme" ELSE "generate"]]
    /\ UNCHANGED <<file, last, intakes>>

\* Lines 49-56: the previous README, for round 2 only.
FetchReadme(p, env) ==
    /\ tasks[p].pc = "readme"
    /\ \E found \in {out = "ok" : out \in Outcomes(env, {"get_contents"})} :
        tasks' = [tasks EXCEPT ![p] = Caught(
            [@ EXCEPT !.calls = @ \o <<Call("get_contents", <<"README.md">>, <<>>, found)>>,
                      !.prev_readme = IF found THEN <<"previous README">> ELSE None,
                      !.pc = "generate"], "get_contents", found)]
    /\ UNCHANGED <<file, last, intakes>>

\* Lines 59-76: generate_app_code returns.
GenerateReturns(p, env) ==
    /\ tasks[p].pc = "generate"
    /\ \E gen \in env.gen :
        tasks' = [tasks EXCEPT ![p] =
            [@ EXCEPT !.calls = @ \o <<Call("generate_app_code", <<>>, <<>>, TRUE)>>,
                      !.gen = gen,
                      !.i = 1,
                      !.pc = AfterGenerate(tasks[p].round_num, gen)]]
    /\ UNCHANGED <<file, last, intakes>>

\* The except clause of line 67 handles the exception e: its expression
\* OpenAIError is evaluated when an exception reaches it, and the clause matches
\* when e is an instance of the class it names.
Handles(e) == "OpenAIError" \in Imported /\ e = "OpenAIError"

\* Lines 59-76: generate_app_code raises e.
GenerateRaises(p, env) ==
    /\ tasks[p].pc = "generate"
    /\ "generate_app_code" \in env.faults
    /\ \E e \in GenErrors :
        LET t == [tasks[p] EXCEPT
                    !.calls = @ \o <<Call("generate_app_code", <<>>, <<>>, FALSE)>>,
                    !.raised = @ \cup {"generate_app_code"}]
        IN  tasks' = [tasks EXCEPT ![p] =
                IF Handles(e)
                THEN [t EXCEPT !.gen = Fallback, !.i = 1,
                               !.pc = AfterGenerate(t.round_num, Fallback)]
                ELSE Abort(t, "generate_app_code")]
    /\ UNCHANGED <<file, last, intakes>>

\* The calls one pass of the loop of lines 78-91 makes for att, given what
\* fails in it: nothing ("ok"), the read of the file ("open"), the binary
\* commit, or the text commit (of a text attachment, or of the backup).
AttachmentCalls(att, out) ==
    LET bytes == <<"bytes of ">> \o att.path
        text == <<"utf-8 text of ">> \o att.path
        b64 == <<"base64 of ">> \o att.path
    IN  <<Call("open", att.path, <<>>, out # "open")>> \o
        (IF out = "open" THEN <<>>
         ELSE IF IsText(att)
         THEN <<Call("create_or_update_file", att.name, text, out = "ok")>>
         ELSE IF out = "create_or_update_binary_file"
         THEN <<Call("create_or_update_binary_file", att.name, bytes, FALSE)>>
         ELSE <<Call("create_or_update_binary_file", att.name, bytes, TRUE),
                Call("create_or_update_file", <<"attachments/">> \o att.name \o <<".b64">>,
                     b64, out = "ok")>>)

\* Lines 78-91: one pass of the round-1 loop over saved_info.
Attachment(p, env) ==
    /\ tasks[p].pc = "attachments"
    /\ LET t == tasks[p]
           att == t.gen.attachments[t.i]
           more == t.i < Len(t.gen.attachments)
       IN  \E out \in Outcomes(env, {"open", "create_or_update_file"} \cup
                        (IF IsText(att) THEN {} ELSE {"create_or_update_binary_file"})) :
              tasks' = [tasks EXCEPT ![p] = Caught(
                [t EXCEPT !.calls = @ \o AttachmentCalls(att, out),
                          !.i = IF more THEN @ + 1 ELSE 1,
                          !.pc = IF more THEN "attachments"
                                 ELSE IF t.gen.files # <<>> THEN "files" ELSE "license"],
                "attachment", out = "ok")]
    /\ UNCHANGED <<file, last, intakes>>

\* One pass of a loop over files.items() that commits the file with
\* create_or_update_file; the exception of a failing commit is not caught.
FileLoop(t, env, at, next) ==
    LET f == t.gen.files[t.i]
        more == t.i < Len(t.gen.files)
    IN  { IF out = "ok"
          THEN [t EXCEPT !.calls = @ \o <<Call("create_or_update_file", f.name, f.content, TRUE)>>,
                         !.i = IF more THEN @ + 1 ELSE 1,
                         !.pc = IF more THEN at ELSE next]
          ELSE Abort([t EXCEPT !.calls = @ \o
                        <<Call("create_or_update_file", f.name, f.content, FALSE)>>], at)
          : out \in Outcomes(env, {"create_or_update_file"}) }

\* Lines 92-95: one pass of the loop of the else branch of step 3.
UpdateFile(p, env) ==
    /\ tasks[p].pc = "update"
    /\ \E t \in FileLoop(tasks[p], env, "update", "files") : tasks' = [tasks EXCEPT ![p] = t]
    /\ UNCHANGED <<file, last, intakes>>

\* Lines 98-99: one pass of the loop of step 4.
CommitFile(p, env) ==
    /\ tasks[p].pc = "files"
    /\ \E t \in FileLoop(tasks[p], env, "files", "license") : tasks' = [tasks EXCEPT ![p] = t]
    /\ UNCHANGED <<file, last, intakes>>

\* Lines 101-102: the LICENSE commit.
License(p, env) ==
    /\ tasks[p].pc = "license"
    /\ \E ok \in {out = "ok" : out \in Outcomes(env, {"create_or_update_file"})} :
        LET t == [tasks[p] EXCEPT !.calls = @ \o
                    <<Call("create_or_update_file", <<"LICENSE">>, <<"MIT License">>, ok)>>]
        IN  tasks' = [tasks EXCEPT ![p] =
                IF ok THEN [t EXCEPT !.pc = "pages"] ELSE Abort(t, "license")]
    /\ UNCHANGED <<file, last, intakes>>

\* pages_url of line 109 without the test of pages_ok.
EnabledUrl_Unconditional(out, url) == IF out = "enable_pages" THEN None ELSE url

\* Lines 105-109: pages_url after enable_pages returned True ("ok"), returned
\* False or raised.
EnabledUrl(out, url) == IF out = "ok" THEN url ELSE None

\* Step 5 without the test of round_num: every round calls enable_pages.
Pages_EveryRound(p, env) ==
    /\ tasks[p].pc = "pages"
    /\ LET t == tasks[p]
           url == PagesUrl(t.data.task)
       IN  \E out \in Outcomes(env, {"enable_pages", "enable_pages_false"}) :
              tasks' = [tasks EXCEPT ![p] = Caught(
                [t EXCEPT !.calls = @ \o <<Call("enable_pages", t.data.task, <<out>>,
                                                out # "enable_pages")>>,
                          !.pages_url = EnabledUrl(out, url),
                          !.pc = "sha"], "enable_pages", out # "enable_pages")]
    /\ UNCHANGED <<file, last, intakes>>

\* Lines 105-113: round 1 calls enable_pages, which returns True or False or
\* raises; any other round takes the url without a call.
Pages(p, env) ==
    /\ tasks[p].pc = "pages"
    /\ LET t == tasks[p]
           url == PagesUrl(t.data.task)
       IN  IF t.round_num = 1
           THEN \E out \in Outcomes(env, {"enable_pages", "enable_pages_false"}) :
                  tasks' = [tasks EXCEPT ![p] = Caught(
                    [t EXCEPT !.calls = @ \o <<Call("enable_pages", t.data.task, <<out>>,
                                                    out # "enable_pages")>>,
                              !.pages_url = EnabledUrl(out, url),
                              !.pc = "sha"], "enable_pages", out # "enable_pages")]
           ELSE tasks' = [tasks EXCEPT ![p] = [t EXCEPT !.pages_url = url, !.pc = "sha"]]
    /\ UNCHANGED <<file, last, intakes>>

\* Lines 116-119: the sha of the latest commit, None when the lookup raises.
CommitSha(p, env) ==
    /\ tasks[p].pc = "sha"
    /\ \E sha \in Shas \cup (IF "get_commits" \in env.faults THEN {None} ELSE {}) :
        tasks' = [tasks EXCEPT ![p] = Caught(
            [@ EXCEPT !.calls = @ \o <<Call("get_commits", <<>>, <<>>, sha # None)>>,
                      !.commit_sha = sha,
                      !.pc = "notify"], "get_commits", sha # None)]
    /\ UNCHANGED <<file, last, intakes>>

\* Lines 122-130: the payload.
Payload(t) ==
    [email |-> t.data.email, task |-> t.data.task, round |-> t.round_num,
     nonce |-> t.data.nonce, repo_url |-> RepoUrl(t.data.task),
     commit_sha |-> t.commit_sha, pages_url |-> t.pages_url]

\* Lines 122-134: the payload and the notification, whose exception is caught.
Notify(p, env) ==
    /\ tasks[p].pc = "notify"
    /\ \E ok \in {out = "ok" : out \in Outcomes(env, {"notify_evaluation_server"})} :
        LET payload == Payload(tasks[p])
        IN  tasks' = [tasks EXCEPT ![p] = Caught(
                [@ EXCEPT !.payload = payload,
                          !.calls = @ \o <<Call("notify_evaluation_server",
                                                tasks[p].data.evaluation_url, payload, ok)>>,
                          !.pc = "load"], "notify_evaluation_server", ok)]
    /\ UNCHANGED <<file, last, intakes>>

\* The key of line 138.
TaskKey(t) == Key(t.data.email, t.data.task, t.round_num, t.data.nonce)

\* Lines 137-139: load_processed() and processed[key] = payload.  An OSError
\* of open() is not caught by load_processed; open() is called only when the
\* file exists.
LoadProcessed(p, env) ==
    /\ tasks[p].pc = "load"
    /\ \E ok \in {out = "ok" : out \in Outcomes(env, IF file.exists THEN {"load_processed"} ELSE {})} :
        LET t == tasks[p]
            processed == load_processed(file)
            key == TaskKey(t)
        IN  tasks' = [tasks EXCEPT ![p] =
                IF ok
                THEN [t EXCEPT !.processed =
                            [k \in DOMAIN processed \cup {key} |->
                                IF k = key THEN t.payload ELSE processed[k]],
                               !.pc = "save_open"]
                ELSE Abort(t, "load_processed")]
    /\ UNCHANGED <<file, last, intakes>>

\* Line 33, open(PROCESSED_PATH, "w"): the file is created or emptied.
SaveOpen(p) ==
    /\ tasks[p].pc = "save_open"
    /\ tasks' = [tasks EXCEPT ![p] = [@ EXCEPT !.pc = "save_dump"]]
    /\ file' = Truncated
    /\ UNCHANGED <<last, intakes>>

\* json.dump writes the file and save_processed never returns.
SaveDump_Hangs(p) ==
    /\ tasks[p].pc = "save_dump"
    /\ file' = save_processed(tasks[p].processed)
    /\ UNCHANGED <<tasks, last, intakes>>

\* Line 33, json.dump and the close of the file: the text reaches the file.
SaveDump(p) ==
    /\ tasks[p].pc = "save_dump"
    /\ tasks' = [tasks EXCEPT ![p] = [@ EXCEPT !.pc = "done"]]
    /\ file' = save_processed(tasks[p].processed)
    /\ UNCHANGED <<last, intakes>>

\* The requests submitted while tasks run concurrently: a round of a fresh
\* build, of a revision, and one that is neither.
SystemRequests == {data \in Requests : data.round \in {1, 2, 3}}

Init ==
    /\ file = Absent
    /\ tasks = <<>>
    /\ last = NoCall
    /\ intakes = 0

Next ==
    \/ \E data \in SystemRequests : receive_request(data)
    \/ \E p \in DOMAIN tasks : Start(p, SystemEnv)
    \/ \E p \in DOMAIN tasks : FetchReadme(p, SystemEnv)
    \/ \E p \in DOMAIN tasks : GenerateReturns(p, SystemEnv)
    \/ \E p \in DOMAIN tasks : GenerateRaises(p, SystemEnv)
    \/ \E p \in DOMAIN tasks : Attachment(p, SystemEnv)
    \/ \E p \in DOMAIN tasks : UpdateFile(p, SystemEnv)
    \/ \E p \in DOMAIN tasks : CommitFile(p, SystemEnv)
    \/ \E p \in DOMAIN tasks : License(p, SystemEnv)
    \/ \E p \in DOMAIN tasks : Pages(p, SystemEnv)
    \/ \E p \in DOMAIN tasks : CommitSha(p, SystemEnv)
    \/ \E p \in DOMAIN tasks : Notify(p, SystemEnv)
    \/ \E p \in DOMAIN tasks : LoadProcessed(p, SystemEnv)
    \/ \E p \in DOMAIN tasks : SaveOpen(p)
    \/ \E p \in DOMAIN tasks : SaveDump(p)

\* The server: any number of handler calls up to MaxIntakes, with the tasks
\* they add running concurrently.
Spec == Init /\ [][Next]_vars

\* The file an earlier run of the server left: the payload of a finished task
\* for another task id.
EarlierLedger ==
    LET task == <<"t0">>
        payload == [email |-> <<"a@x">>, task |-> task, round |-> 1, nonce |-> <<"n0">>,
                    repo_url |-> RepoUrl(task), commit_sha |-> <<"sha0">>,
                    pages_url |-> PagesUrl(task)]
    IN  save_processed([k \in {Key(payload.email, task, 1, payload.nonce)} |-> payload])

\* One accepted request, any round: the state after receive_request has added
\* its task, with no ledger file yet or with the file of an earlier run.
InitTask ==
    /\ file \in {Absent, EarlierLedger}
    /\ \E data \in {d \in Requests : SecretOk(d)} :
        /\ tasks = <<NewTask(data)>>
        /\ last = [NoCall EXCEPT !.data = data, !.response = RespAccepted(data.round),
                                 !.loads = 1, !.scheduled = 1]
    /\ intakes = 1

NextTask ==
    \/ \E p \in DOMAIN tasks : Start(p, FullEnv)
    \/ \E p \in DOMAIN tasks : FetchReadme(p, FullEnv)
    \/ \E p \in DOMAIN tasks : GenerateReturns(p, FullEnv)
    \/ \E p \in DOMAIN tasks : GenerateRaises(p, FullEnv)
    \/ \E p \in DOMAIN tasks : Attachment(p, FullEnv)
    \/ \E p \in DOMAIN tasks : UpdateFile(p, FullEnv)
    \/ \E p \in DOMAIN tasks : CommitFile(p, FullEnv)
    \/ \E p \in DOMAIN tasks : License(p, FullEnv)
    \/ \E p \in DOMAIN tasks : Pages(p, FullEnv)
    \/ \E p \in DOMAIN tasks : CommitSha(p, FullEnv)
    \/ \E p \in DOMAIN tasks : Notify(p, FullEnv)
    \/ \E p \in DOMAIN tasks : LoadProcessed(p, FullEnv)
    \/ \E p \in DOMAIN tasks : SaveOpen(p)
    \/ \E p \in DOMAIN tasks : SaveDump(p)

\* One task of process_request, in every environment.
SpecTask == InitTask /\ [][NextTask]_vars

\* One task of process_request whose steps are taken as long as one is
\* possible: the thread that runs the task is never held back, and each call
\* it makes returns or raises.
SpecTaskFair == InitTask /\ [][NextTask]_vars /\ WF_vars(NextTask)

-----------------------------------------------------------------------------
(* Properties *)

Running(t) == t.pc \notin {"done", "aborted"}

\* The ledger as load_processed reads it now.
Ledger == load_processed(file)

\* The step is a call of receive_request.
HandlerStep == intakes' = intakes + 1

\* C1: two calls of receive_request with the same (email, task, round, nonce)
\* and a valid secret never leave two tasks of process_request for that key
\* scheduled or running at the same time.
C1_OnePipelinePerKey ==
    \A p, q \in DOMAIN tasks :
        (p # q /\ Running(tasks[p]) /\ Running(tasks[q]))
            => IntakeKey(tasks[p].data) # IntakeKey(tasks[q].data)

\* C2: a call of receive_request whose secret is not USER_SECRET answers
\* {error: "Invalid secret"}, does not load the ledger, notifies nobody, adds
\* no task, and leaves the ledger file and every task (so every call to the
\* repository and to generation) as they were.
C2_AuthGate ==
    [][(HandlerStep /\ last'.data.secret # USER_SECRET)
        => /\ last'.response = RespInvalid
           /\ last'.loads = 0
           /\ last'.notified = <<>>
           /\ last'.scheduled = 0
           /\ file' = file
           /\ tasks' = tasks]_vars

\* C2 witness: a call with a wrong secret was answered while a task of an
\* earlier call was there to be disturbed.
C2_Witness ==
    /\ last.data.secret = <<"wrong">>
    /\ last.response = RespInvalid
    /\ Len(tasks) > 0

\* C3: a call of receive_request with a valid secret whose key is in the ledger
\* makes one notification call, with the payload the ledger holds for the key,
\* which is the payload a finished task built for that key; it adds no task,
\* leaves the tasks and the ledger file as they were and answers
\* "duplicate handled & re-notified", whether or not the notification raised.
C3_Duplicate ==
    [][(/\ HandlerStep
        /\ last'.data.secret = USER_SECRET
        /\ Key(last'.data.email, last'.data.task, last'.data.round, last'.data.nonce)
              \in DOMAIN Ledger)
        => LET key == Key(last'.data.email, last'.data.task, last'.data.round,
                          last'.data.nonce)
           IN  /\ Len(last'.notified) = 1
               /\ last'.notified[1] = Ledger[key]
               /\ \E p \in DOMAIN tasks :
                    /\ tasks[p].pc = "done"
                    /\ TaskKey(tasks[p]) = key
                    /\ tasks[p].payload = last'.notified[1]
               /\ last'.scheduled = 0
               /\ tasks' = tasks
               /\ file' = file
               /\ last'.response = RespDuplicate]_vars

\* C3 witness: a duplicate was answered although its notification raised, and
\* the payload it re-sent has a null pages_url.
C3_Witness ==
    /\ last.response = RespDuplicate
    /\ last.notify_raised
    /\ Len(last.notified) = 1
    /\ last.notified[1].pages_url = None

-----------------------------------------------------------------------------
(* Properties of one run of process_request *)

\* The calls of t to op at path that returned.
Commits(t, op, path) ==
    {j \in DOMAIN t.calls : t.calls[j].op = op /\ t.calls[j].ok /\ t.calls[j].path = path}

\* Every commit of t that returned.
AllCommits(t) ==
    {j \in DOMAIN t.calls :
        /\ t.calls[j].op \in {"create_or_update_file", "create_or_update_binary_file"}
        /\ t.calls[j].ok}

\* t is past its LICENSE commit: steps 3 and 4 are over and no commit raised.
Published(t) ==
    \/ t.pc \in {"pages", "sha", "notify", "load", "save_open", "save_dump", "done"}
    \/ t.pc = "aborted" /\ t.aborted = "load_processed"

\* t is past its notification attempt.
Notified(t) ==
    \/ t.pc \in {"load", "save_open", "save_dump", "done"}
    \/ t.pc = "aborted" /\ t.aborted = "load_processed"

Occurrences(seq, x) == Cardinality({j \in DOMAIN seq : seq[j] = x})

BackupPath(att) == <<"attachments/">> \o att.name \o <<".b64">>

\* A text attachment as the specification describes it: a text/* mime type or
\* a name ending in .md, .csv, .json or .txt.
C4_TextAttachment(att) ==
    \/ att.mime[1] = "text"
    \/ \E ext \in {".md", ".csv", ".json", ".txt"} : att.name[Len(att.name)] = ext

\* C4: a round-1 run in which generation returned N files and no attachment
\* step failed has, once it is past the LICENSE commit, committed each generated
\* file once (N commits), each binary attachment twice (its bytes at its name,
\* its base64 text at attachments/<name>.b64), each text attachment once, as
\* text at its name and with no backup, and LICENSE once, and nothing else.
C4_RoundOneCommits ==
    \A p \in DOMAIN tasks :
        LET t == tasks[p]
            files == t.gen.files
            atts == t.gen.attachments
            binaries == {j \in DOMAIN atts : ~C4_TextAttachment(atts[j])}
        IN  (t.round_num = 1 /\ Published(t) /\ "attachment" \notin t.raised)
            => /\ \A j \in DOMAIN files :
                    Cardinality(Commits(t, "create_or_update_file", files[j].name)) = 1
               /\ \A j \in DOMAIN atts :
                    LET att == atts[j]
                        n == Occurrences(atts, att)
                        asText == Commits(t, "create_or_update_file", att.name)
                        asBytes == Commits(t, "create_or_update_binary_file", att.name)
                        backup == Commits(t, "create_or_update_file", BackupPath(att))
                    IN  IF C4_TextAttachment(att)
                        THEN /\ Cardinality(asText) = n
                             /\ \A c \in asText :
                                    t.calls[c].content = <<"utf-8 text of ">> \o att.path
                             /\ asBytes = {}
                             /\ backup = {}
                        ELSE /\ Cardinality(asBytes) = n
                             /\ Cardinality(backup) = n
                             /\ \A c \in backup :
                                    t.calls[c].content = <<"base64 of ">> \o att.path
                             /\ asText = {}
               /\ Cardinality(Commits(t, "create_or_update_file", <<"LICENSE">>)) = 1
               /\ Cardinality(AllCommits(t)) =
                    Len(files) + Len(atts) + Cardinality(binaries) + 1

\* C4 witness: a finished round-1 run with two generated files, a binary and a
\* text attachment, and no failure.
C4_Witness ==
    \E p \in DOMAIN tasks :
        LET t == tasks[p]
        IN  /\ t.round_num = 1
            /\ t.pc = "done"
            /\ t.raised = {}
            /\ Len(t.gen.files) = 2
            /\ \E j, k \in DOMAIN t.gen.attachments :
                    /\ ~C4_TextAttachment(t.gen.attachments[j])
                    /\ t.gen.attachments[k].name = <<"data", ".csv">>
            /\ Cardinality(AllCommits(t)) = 6

\* C5: a round-2 run that is past the LICENSE commit has committed each
\* generated file once and LICENSE once, and nothing else.
C5_RoundTwoCommits ==
    \A p \in DOMAIN tasks :
        LET t == tasks[p]
            files == t.gen.files
        IN  (t.round_num = 2 /\ Published(t))
            => /\ \A j \in DOMAIN files :
                    Cardinality(Commits(t, "create_or_update_file", files[j].name)) = 1
               /\ Cardinality(Commits(t, "create_or_update_file", <<"LICENSE">>)) = 1
               /\ Cardinality(AllCommits(t)) = Len(files) + 1

\* C6: a run whose generation call raised goes on with the fallback result: it
\* does not end at the generation step.
C6_FallbackOnGenerationFailure ==
    \A p \in DOMAIN tasks :
        LET t == tasks[p]
        IN  "generate_app_code" \in t.raised
            => /\ t.aborted # "generate_app_code"
               /\ t.gen = Fallback

\* The calls of t to op, returned or raised.
CallsTo(t, op) == {j \in DOMAIN t.calls : t.calls[j].op = op}

\* enable_pages was called by t and raised or returned False.
PagesFailed(t) ==
    \E j \in CallsTo(t, "enable_pages") : t.calls[j].content # <<"ok">>

\* What is left of the run after the payload was sent: t is at the ledger
\* steps, or has finished, or was stopped by the ledger file being unreadable;
\* the notification is the last call it made and carries `payload`; and once t
\* has finished, the ledger holds `payload` under the key of t.
NotifiedAndPersisted(t, payload) ==
    /\ Notified(t)
    /\ t.calls[Len(t.calls)].op = "notify_evaluation_server"
    /\ t.calls[Len(t.calls)].content = payload
    /\ t.pc = "done" => (TaskKey(t) \in DOMAIN Ledger /\ Ledger[TaskKey(t)] = payload)

\* C7: in a round-1 run whose enable_pages call raised or returned False,
\* pages_url is None from then on, the steps after it are not skipped (the run
\* goes on to the commit lookup, the notification and the ledger steps, and
\* only the ledger file being unreadable ends it early), and the payload that
\* is notified and then stored has pages_url None.  In the same way a commit
\* lookup that raised gives commit_sha None in the payload notified and stored.
C7_Degradation ==
    \A p \in DOMAIN tasks :
        LET t == tasks[p]
        IN  /\ (t.round_num = 1 /\ PagesFailed(t))
                => /\ t.pages_url = None
                   /\ t.pc \in {"sha", "notify"} \/ Notified(t)
                   /\ t.pc # "sha" => CallsTo(t, "get_commits") # {}
                   /\ Notified(t) =>
                        /\ t.payload.pages_url = None
                        /\ NotifiedAndPersisted(t, t.payload)
            /\ "get_commits" \in t.raised
                => /\ t.commit_sha = None
                   /\ t.pc = "notify" \/ Notified(t)
                   /\ Notified(t) =>
                        /\ t.payload.commit_sha = None
                        /\ NotifiedAndPersisted(t, t.payload)

\* C7 witness: a finished round-1 run whose enable_pages call raised and whose
\* commit lookup raised, with the payload in the ledger.
C7_Witness ==
    \E p \in DOMAIN tasks :
        LET t == tasks[p]
        IN  /\ t.round_num = 1
            /\ t.pc = "done"
            /\ {"enable_pages", "get_commits"} \subseteq t.raised
            /\ Ledger[TaskKey(t)].pages_url = None
            /\ Ledger[TaskKey(t)].commit_sha = None

\* C8: the key of every finished task is in the ledger whenever the ledger
\* file is readable.
C8_NoEntryDeleted ==
    \A p \in DOMAIN tasks :
        (tasks[p].pc = "done" /\ file.valid) => TaskKey(tasks[p]) \in DOMAIN Ledger

\* C9: what the ledger holds under the key of a finished task is the payload
\* that task stored.
C9_PayloadImmutable ==
    \A p \in DOMAIN tasks :
        LET t == tasks[p]
        IN  (t.pc = "done" /\ TaskKey(t) \in DOMAIN Ledger)
                => Ledger[TaskKey(t)] = t.payload

\* C10: a run whose notification call raised goes on to the ledger steps (only
\* the ledger file being unreadable ends it early); the notification stays the
\* last call of the run, so no commit and no generation call is made again;
\* generation and notification were each called once; and the payload the
\* ledger holds once the run has finished is the payload passed to the notifier.
C10_NotificationFailure ==
    \A p \in DOMAIN tasks :
        LET t == tasks[p]
        IN  "notify_evaluation_server" \in t.raised
            => /\ NotifiedAndPersisted(t, t.calls[Len(t.calls)].content)
               /\ ~t.calls[Len(t.calls)].ok
               /\ Cardinality(CallsTo(t, "notify_evaluation_server")) = 1
               /\ Cardinality(CallsTo(t, "generate_app_code")) = 1

\* C10 witness: a finished run whose notification call raised, with its
\* payload in the ledger.
C10_Witness ==
    \E p \in DOMAIN tasks :
        LET t == tasks[p]
        IN  /\ t.pc = "done"
            /\ "notify_evaluation_server" \in t.raised
            /\ Ledger[TaskKey(t)] = t.payload
            /\ AllCommits(t) # {}

-----------------------------------------------------------------------------
(* Properties of the handler and of the tasks it adds *)

\* The key of a request, piece by piece.
RequestKey(data) ==
    data.email \o <<"::">> \o data.task \o <<"::round">> \o
    <<CASE data.round = 1 -> "1" [] data.round = 2 -> "2" [] data.round = 3 -> "3"
        [] OTHER -> "?">> \o <<"::nonce">> \o data.nonce

\* C11: a call of receive_request with a valid secret whose key is not in the
\* ledger adds one task, which holds the request and has run nothing of
\* process_request (no call made, nothing loaded), answers "accepted" with the
\* note "processing round <R> started", notifies nobody and leaves the ledger
\* file and the tasks that were there as they were; a task that has not started
\* has made no call.
C11_AcceptedIsScheduledOnly ==
    /\ [](\A p \in DOMAIN tasks : tasks[p].pc = "scheduled" => tasks[p].calls = <<>>)
    /\ [][(/\ HandlerStep
           /\ last'.data.secret = USER_SECRET
           /\ RequestKey(last'.data) \notin DOMAIN Ledger)
          => /\ Len(tasks') = Len(tasks) + 1
             /\ SubSeq(tasks', 1, Len(tasks)) = tasks
             /\ tasks'[Len(tasks')].data = last'.data
             /\ tasks'[Len(tasks')].pc = "scheduled"
             /\ tasks'[Len(tasks')].calls = <<>>
             /\ tasks'[Len(tasks')].processed = EmptyDict
             /\ file' = file
             /\ last'.notified = <<>>
             /\ last'.scheduled = 1
             /\ last'.response.status = <<"accepted">>
             /\ last'.response.error = None
             /\ last'.response.note =
                    <<"processing round ",
                      CASE last'.data.round = 1 -> "1" [] last'.data.round = 2 -> "2"
                        [] OTHER -> "3",
                      " started">>]_vars

\* C11 witness: a second request, for another key, was accepted after the task
\* of the first had finished and written the ledger.
C11_Witness ==
    /\ Len(tasks) = 2
    /\ tasks[1].pc = "done"
    /\ tasks[2].pc = "scheduled"
    /\ last.scheduled = 1
    /\ last.response.status = <<"accepted">>
    /\ file.valid
    /\ RequestKey(last.data) \notin DOMAIN Ledger

\* The place of a call in the order of steps 4 to 8: the commits of files, the
\* LICENSE commit, enable_pages, the commit lookup, the notification; 0 for the
\* calls of steps 1 and 2.
StepRank(c) ==
    CASE c.op \in {"create_or_update_file", "create_or_update_binary_file"} ->
            IF c.path = <<"LICENSE">> THEN 2 ELSE 1
      [] c.op = "enable_pages" -> 3
      [] c.op = "get_commits" -> 4
      [] c.op = "notify_evaluation_server" -> 5
      [] OTHER -> 0

\* t has committed every generated file, then LICENSE, then gone through the
\* hosting step, then looked the commit up, then attempted the notification.
PublishedInOrder(t) ==
    /\ \A i, j \in DOMAIN t.calls : i < j => StepRank(t.calls[i]) <= StepRank(t.calls[j])
    /\ \A k \in DOMAIN t.gen.files :
            Commits(t, "create_or_update_file", t.gen.files[k].name) # {}
    /\ Cardinality(Commits(t, "create_or_update_file", <<"LICENSE">>)) = 1
    /\ IF t.round_num = 1 THEN Cardinality(CallsTo(t, "enable_pages")) = 1
                          ELSE t.pages_url = PagesUrl(t.data.task)
    /\ Cardinality(CallsTo(t, "get_commits")) = 1
    /\ Cardinality(CallsTo(t, "notify_evaluation_server")) = 1
    /\ t.calls[Len(t.calls)].op = "notify_evaluation_server"

\* C12: whenever the ledger holds a key, a task for that key has finished,
\* having committed the generated files, then LICENSE, then gone through the
\* hosting step, the commit lookup and the notification attempt, in that order;
\* and from the moment a task starts writing the ledger it makes no further
\* call, and once it has written it nothing of it changes.
C12_LedgerWriteIsLast ==
    /\ [](\A k \in DOMAIN Ledger :
            \E p \in DOMAIN tasks :
                /\ tasks[p].pc = "done"
                /\ TaskKey(tasks[p]) = k
                /\ PublishedInOrder(tasks[p]))
    /\ [][\A p \in DOMAIN tasks :
            /\ tasks[p].pc \in {"save_open", "save_dump", "done"}
                    => tasks'[p].calls = tasks[p].calls
            /\ tasks[p].pc = "done" => tasks'[p] = tasks[p]]_vars

\* C12 witness: the ledger holds the key of a finished round-1 task while
\* another task is under way.
C12_Witness ==
    /\ Len(tasks) = 2
    /\ tasks[1].pc = "done"
    /\ tasks[1].round_num = 1
    /\ TaskKey(tasks[1]) \in DOMAIN Ledger
    /\ tasks[2].pc = "files"

\* Every task for the key k was ended by create_repo raising.
OnlyRepoFailures(k) ==
    /\ \E p \in DOMAIN tasks : TaskKey(tasks[p]) = k /\ tasks[p].pc = "aborted"
    /\ \A p \in DOMAIN tasks :
            RequestKey(tasks[p].data) = k
                => tasks[p].pc = "aborted" /\ tasks[p].aborted = "create_repo"

\* C13: a task whose create_repo call raised has ended, with no commit, no
\* notification and no ledger step made; as long as the tasks for a key have
\* all ended that way the ledger lacks the key, and a call of receive_request
\* with that key and a valid secret is answered "accepted" and adds a task that
\* starts process_request from the beginning.
C13_RepoFailureIsRetryable ==
    /\ [](\A p \in DOMAIN tasks :
            "create_repo" \in tasks[p].raised
                => /\ tasks[p].pc = "aborted"
                   /\ tasks[p].aborted = "create_repo"
                   /\ tasks[p].calls[Len(tasks[p].calls)].op = "create_repo"
                   /\ AllCommits(tasks[p]) = {}
                   /\ CallsTo(tasks[p], "notify_evaluation_server") = {}
                   /\ tasks[p].processed = EmptyDict
                   /\ tasks[p].payload = NoPayload)
    /\ [](\A data \in SystemRequests :
            OnlyRepoFailures(RequestKey(data)) => RequestKey(data) \notin DOMAIN Ledger)
    /\ [][(/\ HandlerStep
           /\ last'.data.secret = USER_SECRET
           /\ OnlyRepoFailures(RequestKey(last'.data)))
          => /\ last'.response.status = <<"accepted">>
             /\ last'.scheduled = 1
             /\ Len(tasks') = Len(tasks) + 1
             /\ tasks'[Len(tasks')].data = last'.data
             /\ tasks'[Len(tasks')].pc = "scheduled"]_vars

\* C13 witness: the request whose task was ended by create_repo raising has
\* been submitted again, accepted, and its second task has finished and written
\* the ledger.
C13_Witness ==
    /\ Len(tasks) = 2
    /\ tasks[1].aborted = "create_repo"
    /\ tasks[2].data = tasks[1].data
    /\ tasks[2].pc = "done"
    /\ TaskKey(tasks[2]) \in DOMAIN Ledger

\* The ledger file exists and its content cannot be decoded as JSON.
Corrupt(f) == f.exists /\ ~f.valid

\* C14: a task that runs load_processed at its step 8 while the ledger file is
\* corrupt ends there, with the exception of the load, and does not go on to
\* save_processed.
C14_CorruptLedgerAborts ==
    [][\A p \in DOMAIN tasks :
        (tasks[p].pc = "load" /\ tasks'[p] # tasks[p] /\ Corrupt(file))
            => /\ tasks'[p].pc = "aborted"
               /\ tasks'[p].aborted = "load_processed"]_vars

\* A create_or_update_file call of t for a generated file or for LICENSE raised.
FileCommitFailed(t) ==
    \E j \in CallsTo(t, "create_or_update_file") :
        /\ ~t.calls[j].ok
        /\ \/ t.calls[j].path = <<"LICENSE">>
           \/ \E k \in DOMAIN t.gen.files : t.calls[j].path = t.gen.files[k].name

\* C15: a run in which the commit of a generated file or of LICENSE raised is
\* not ended by it: it is still under way, or it got past the notification
\* attempt to the ledger steps.
C15_FileCommitFailureContained ==
    \A p \in DOMAIN tasks :
        FileCommitFailed(tasks[p]) => (Running(tasks[p]) \/ Notified(tasks[p]))

\* t is past step 5 (lines 105-113).
PastPages(t) ==
    \/ t.pc \in {"sha", "notify", "load", "save_open", "save_dump", "done"}
    \/ t.pc = "aborted" /\ t.aborted = "load_processed"

\* pages_url as the round of t and the result of its enable_pages call
\* determine it.
HostedUrl(t) ==
    LET url == <<"https://", "user", ".github.io/">> \o t.data.task \o <<"/">>
    IN  IF t.round_num = 1
        THEN IF \E j \in CallsTo(t, "enable_pages") : t.calls[j].content = <<"ok">>
             THEN url ELSE None
        ELSE url

\* C16: a round-1 run calls enable_pages once, at step 5 and not before, and
\* its pages_url is not None exactly when that call returned True; a round-2
\* run never calls enable_pages and its pages_url is the url; the payload
\* notified and the payload stored in the ledger carry that pages_url.
C16_HostingByRound ==
    \A p \in DOMAIN tasks :
        LET t == tasks[p]
        IN  /\ t.round_num = 1 =>
                Cardinality(CallsTo(t, "enable_pages")) = IF PastPages(t) THEN 1 ELSE 0
            /\ t.round_num = 2 => CallsTo(t, "enable_pages") = {}
            /\ (t.round_num \in {1, 2} /\ PastPages(t)) =>
                /\ t.pages_url = HostedUrl(t)
                /\ t.round_num = 2 => t.pages_url # None
                /\ t.round_num = 1 =>
                    (t.pages_url # None <=>
                        \E j \in CallsTo(t, "enable_pages") :
                            t.calls[j].ok /\ t.calls[j].content = <<"ok">>)
            /\ (t.round_num \in {1, 2} /\ Notified(t)) =>
                /\ t.payload.pages_url = HostedUrl(t)
                /\ t.calls[Len(t.calls)].content.pages_url = HostedUrl(t)
            /\ (t.round_num \in {1, 2} /\ t.pc = "done") =>
                Ledger[TaskKey(t)].pages_url = HostedUrl(t)

\* C16 witness: a round-2 run has finished without a call of enable_pages and
\* the ledger holds its payload with the url.
C16_Witness ==
    \E p \in DOMAIN tasks :
        /\ tasks[p].round_num = 2
        /\ tasks[p].pc = "done"
        /\ CallsTo(tasks[p], "enable_pages") = {}
        /\ Ledger[TaskKey(tasks[p])].pages_url = <<"https://", "user", ".github.io/", "t1", "/">>

\* C17: the key under which a task stores its payload is the key
\* receive_request looked up for the request of the task, and once the task has
\* written the ledger a call of receive_request for the same email, task, round
\* and nonce finds that key in the ledger it loads.
C17_IntakeKeyIsLedgerKey ==
    \A p \in DOMAIN tasks :
        LET t == tasks[p]
        IN  /\ t.pc # "scheduled" => TaskKey(t) = RequestKey(t.data)
            /\ t.pc \in {"save_open", "save_dump", "done"} =>
                    /\ RequestKey(t.data) \in DOMAIN t.processed
                    /\ t.processed[RequestKey(t.data)] = t.payload
            /\ (t.pc = "done" /\ file.valid) =>
                    /\ RequestKey(t.data) \in DOMAIN Ledger
                    /\ IntakeKey(t.data) \in DOMAIN Ledger

\* The paths t has opened so far, in order.
OpenedPaths(t) ==
    LET opens == SelectSeq(t.calls, LAMBDA c : c.op = "open")
    IN  [k \in DOMAIN opens |-> opens[k].path]

\* The paths of the first n attachments of t.
AttachmentPaths(t, n) == [k \in 1..n |-> t.gen.attachments[k].path]

\* t has left the loop over saved_info.
PastAttachments(t) ==
    \/ t.pc \in {"files", "license", "pages", "sha", "notify", "load",
                 "save_open", "save_dump", "done"}
    \/ t.pc = "aborted" /\ t.aborted \in {"files", "license", "load_processed"}

\* C18: in a round-1 run, whatever read or commit of an attachment raised, the
\* run is never ended by it; the loop goes through the attachments in order and
\* attempts each one (it opens each, and commits each one it could open); and
\* the steps after the loop are made as in a run without such a failure: the
\* generated files and LICENSE are committed before the hosting step, the
\* notification is attempted before the ledger steps, and the finished run has
\* its entry in the ledger.
C18_AttachmentFailureIsLocal ==
    \A p \in DOMAIN tasks :
        LET t == tasks[p]
            atts == t.gen.attachments
        IN  t.round_num = 1 =>
            /\ t.aborted # "attachment"
            /\ "attachment" \in t.raised =>
                    (t.pc = "aborted" => t.aborted \in {"files", "license", "load_processed"})
            /\ t.pc = "attachments" => OpenedPaths(t) = AttachmentPaths(t, t.i - 1)
            /\ PastAttachments(t) =>
                /\ OpenedPaths(t) = AttachmentPaths(t, Len(atts))
                /\ \A k \in DOMAIN atts :
                    (\E j \in CallsTo(t, "open") : t.calls[j].path = atts[k].path /\ t.calls[j].ok)
                        => \E j \in DOMAIN t.calls :
                            /\ t.calls[j].op \in {"create_or_update_file",
                                                  "create_or_update_binary_file"}
                            /\ t.calls[j].path = atts[k].name
            /\ Published(t) =>
                /\ \A k \in DOMAIN t.gen.files :
                        Commits(t, "create_or_update_file", t.gen.files[k].name) # {}
                /\ Commits(t, "create_or_update_file", <<"LICENSE">>) # {}
            /\ Notified(t) => CallsTo(t, "notify_evaluation_server") # {}
            /\ t.pc = "done" => TaskKey(t) \in DOMAIN Ledger

\* C18 witness: a round-1 run with two different attachments has finished; the
\* read of the first raised, the second was committed, and the generated file,
\* LICENSE, the notification and the ledger entry are there.
C18_Witness ==
    \E p \in DOMAIN tasks :
        LET t == tasks[p]
        IN  /\ t.round_num = 1
            /\ t.pc = "done"
            /\ Len(t.gen.attachments) = 2
            /\ t.gen.attachments[1] # t.gen.attachments[2]
            /\ t.gen.files # <<>>
            /\ \E j \in CallsTo(t, "open") :
                    t.calls[j].path = t.gen.attachments[1].path /\ ~t.calls[j].ok
            /\ Commits(t, "create_or_update_file", t.gen.attachments[1].name) = {}
            /\ Commits(t, "create_or_update_binary_file", t.gen.attachments[1].name) = {}
            /\ \E op \in {"create_or_update_file", "create_or_update_binary_file"} :
                    Commits(t, op, t.gen.attachments[2].name) # {}
            /\ Commits(t, "create_or_update_file", <<"LICENSE">>) # {}
            /\ CallsTo(t, "notify_evaluation_server") # {}
            /\ TaskKey(t) \in DOMAIN Ledger

\* How far t is in process_request: the step it is at and, inside a loop, the
\* pass it is at.
Position(t) ==
    <<CASE t.pc = "scheduled" -> 0 [] t.pc = "readme" -> 1 [] t.pc = "generate" -> 2
        [] t.pc = "attachments" -> 3 [] t.pc = "update" -> 4 [] t.pc = "files" -> 5
        [] t.pc = "license" -> 6 [] t.pc = "pages" -> 7 [] t.pc = "sha" -> 8
        [] t.pc = "notify" -> 9 [] t.pc = "load" -> 10 [] t.pc = "save_open" -> 11
        [] t.pc = "save_dump" -> 12 [] OTHER -> 13,
      t.i>>

\* The calls whose exception nothing in process_request catches.
Unhandled ==
    {"decode_attachments", "create_repo", "generate_app_code", "update", "files",
     "license", "load_processed"}

\* C19: every task added by receive_request comes to an end, given that each
\* of its calls returns or raises; it ends either finished, with its payload in
\* the ledger under its key, or ended by an exception nothing caught; and no
\* step cancels a task or takes it back: each step of a task moves it forward
\* in process_request and keeps the calls it has made, and a task that has
\* ended never changes.
C19_Terminates ==
    /\ <>(\A p \in DOMAIN tasks : ~Running(tasks[p]))
    /\ [](\A p \in DOMAIN tasks :
            /\ tasks[p].pc = "done" =>
                    /\ TaskKey(tasks[p]) \in DOMAIN Ledger
                    /\ Ledger[TaskKey(tasks[p])] = tasks[p].payload
                    /\ tasks[p].aborted = ""
            /\ tasks[p].pc = "aborted" =>
                    /\ tasks[p].aborted \in Unhandled
                    /\ tasks[p].aborted \in tasks[p].raised
            /\ tasks[p].pc # "aborted" => tasks[p].aborted = "")
    /\ [][/\ Len(tasks') = Len(tasks)
          /\ \A p \in DOMAIN tasks :
                /\ ~Running(tasks[p]) => tasks'[p] = tasks[p]
                /\ tasks'[p] # tasks[p] =>
                    /\ \/ Position(tasks'[p])[1] > Position(tasks[p])[1]
                       \/ /\ Position(tasks'[p])[1] = Position(tasks[p])[1]
                          /\ Position(tasks'[p])[2] > Position(tasks[p])[2]
                    /\ Len(tasks'[p].calls) >= Len(tasks[p].calls)
                    /\ SubSeq(tasks'[p].calls, 1, Len(tasks[p].calls)) = tasks[p].calls
                    /\ tasks'[p].data = tasks[p].data]_vars

\* C19 witness: a task was ended by the LICENSE commit raising, after it had
\* committed files.
C19_Witness ==
    \E p \in DOMAIN tasks :
        /\ tasks[p].pc = "aborted"
        /\ tasks[p].aborted = "license"
        /\ AllCommits(tasks[p]) # {}
        /\ TaskKey(tasks[p]) \notin DOMAIN Ledger

\* The round of the request of t is neither 1 nor 2.
OtherRound(data) == data.round \notin {1, 2}

\* C20: a call of receive_request with a valid secret, a round that is neither
\* 1 nor 2 and a key not in the ledger is answered "accepted" and adds a task;
\* that task never reads the previous README, never opens or commits an
\* attachment, never calls enable_pages, commits nothing but the generated
\* files and LICENSE, and has the url as pages_url once past step 5; and the
\* step that finishes it leaves the ledger with its payload under the key
\* that names its round.
C20_OtherRoundIsRevision ==
    /\ [](\A p \in DOMAIN tasks :
            LET t == tasks[p]
            IN  OtherRound(t.data) =>
                /\ t.pc \notin {"readme", "attachments"}
                /\ t.pc # "scheduled" => t.round_num = t.data.round
                /\ t.prev_readme = None
                /\ CallsTo(t, "get_contents") = {}
                /\ CallsTo(t, "open") = {}
                /\ CallsTo(t, "create_or_update_binary_file") = {}
                /\ CallsTo(t, "enable_pages") = {}
                /\ \A j \in CallsTo(t, "create_or_update_file") :
                        \/ t.calls[j].path = <<"LICENSE">>
                        \/ \E k \in DOMAIN t.gen.files : t.calls[j].path = t.gen.files[k].name
                /\ PastPages(t) =>
                        t.pages_url = <<"https://", "user", ".github.io/">> \o t.data.task \o <<"/">>
                /\ Notified(t) => t.payload.pages_url # None /\ t.payload.round = t.data.round)
    /\ [][(/\ HandlerStep
           /\ last'.data.secret = USER_SECRET
           /\ OtherRound(last'.data)
           /\ RequestKey(last'.data) \notin DOMAIN Ledger)
          => /\ last'.response.status = <<"accepted">>
             /\ last'.response.error = None
             /\ last'.scheduled = 1
             /\ tasks' = Append(tasks, tasks'[Len(tasks')])
             /\ tasks'[Len(tasks')].data = last'.data]_vars
    /\ [][\A p \in DOMAIN tasks :
            (OtherRound(tasks[p].data) /\ tasks[p].pc # "done" /\ tasks'[p].pc = "done")
                => /\ RequestKey(tasks[p].data) \in DOMAIN load_processed(file')
                   /\ load_processed(file')[RequestKey(tasks[p].data)] = tasks[p].payload
                   /\ "3" \in {RequestKey(tasks[p].data)[k] :
                                    k \in DOMAIN RequestKey(tasks[p].data)}]_vars

\* C20 witness: a round-3 request was accepted and its task has finished,
\* having committed its generated file, and the ledger holds its payload under
\* the key with round3.
C20_Witness ==
    \E p \in DOMAIN tasks :
        LET t == tasks[p]
        IN  /\ t.data.round = 3
            /\ t.pc = "done"
            /\ t.gen.attachments # <<>>
            /\ AllCommits(t) # {}
            /\ <<"a@x", "::", "t1", "::round", "3", "::nonce", "n1">> \in DOMAIN Ledger
            /\ Ledger[TaskKey(t)].pages_url # None

====
